---- MODULE Spec2Model ----
(***************************************************************************)
(* The paper optimisation loop of ai_scientist/paper_optimizer.py:         *)
(* calculate_paper_score, and optimize_paper as a state machine that is    *)
(* suspended at each collaborator call (perform_writeup, perform_review,   *)
(* get_meta_review, get_improvement_suggestions), and the part of main()   *)
(* in optimize_paper.py that calls it, saves the history and prints the    *)
(* final score.                                                            *)
(*                                                                         *)
(* Python dicts are functions whose DOMAIN is the set of keys present.     *)
(* A score is a float in the source; every score is a sum of integers      *)
(* divided by 4, so it is kept exactly as a number of hundredths           *)
(* (3.25 is 325), and target_score is given in the same unit.              *)
(***************************************************************************)
EXTENDS Integers, Sequences, FiniteSets, TLC

VARIABLES
    target_score,         \* argument target_score, in hundredths
    max_iterations,       \* argument max_iterations
    idea,                 \* the caller's Idea dict, mutated in place
    improvement_history,  \* local list improvement_history
    current_score,        \* local current_score, in hundredths
    iteration,            \* local iteration
    reviews,              \* local list reviews
    meta_review,          \* local meta_review (Unbound before the first assignment)
    improvements,         \* local improvements (Unbound before the first assignment)
    pc,                   \* position of the control flow in optimize_paper
    error,                \* the exception that ended the call, "none" if none
    result,               \* the returned (final_review, improvement_history), None before
    trace,                \* the calls issued and the records appended, in order
    llm_calls,            \* get_response_from_llm calls issued by get_improvement_suggestions
    idea0,                \* the Idea as the caller passed it
    main_pc,              \* position of the control flow in main()
    main_error,           \* the exception that ended main(), "none" if none
    history_file,         \* content of optimization_history.json, None while not written
    file_writes,          \* number of times main() wrote optimization_history.json
    stdout                \* the lines main() printed after the call, in order

\* the state of the caller
main_vars == <<idea0, main_pc, main_error, history_file, file_writes, stdout>>

vars == <<target_score, max_iterations, idea, improvement_history, current_score,
          iteration, reviews, meta_review, improvements, pc, error, result, trace,
          llm_calls, main_vars>>

----------------------------------------------------------------------------
(* Bounds of the model *)

\* the largest max_iterations a caller passes
MaxBudget == 3

\* the largest value of one metric in the score calculator's exhaustive inputs
MaxMetric == 4

----------------------------------------------------------------------------
(* Values *)

None == [None |-> TRUE]
Unbound == [Unbound |-> TRUE]

\* for _ in range(3)
NumReviewers == 3

metrics == <<"Originality", "Quality", "Clarity", "Significance">>

Range(s) == {s[i] : i \in DOMAIN s}

\* d.get(k, default)
DictGet(d, k, default) == IF k \in DOMAIN d THEN d[k] ELSE default

DictSetIfAbsent(d, k, v) == d @@ (k :> v)

\* d[k] = v
DictSet(d, k, v) == (k :> v) @@ d

\* every Review-shaped mapping over the four metrics, any of them absent
AllReviews == UNION {[S -> 1..MaxMetric] : S \in SUBSET Range(metrics)}

\* the meta-reviews the aggregator returns in the loop: scores 3.0, 3.25 (Clarity
\* absent), 3.5, 3.75 and 1.0 (no metric at all)
MetaReviews ==
    { [Originality |-> 3, Quality |-> 3, Clarity |-> 3, Significance |-> 3],
      [Originality |-> 4, Quality |-> 4, Significance |-> 4],
      [Originality |-> 4, Quality |-> 4, Clarity |-> 3, Significance |-> 3],
      [Originality |-> 4, Quality |-> 4, Clarity |-> 3, Significance |-> 4],
      [S \in {} |-> 1] }

\* what extract_json_between_markers hands back from the suggester's response:
\* two well-formed ImprovementSets and mappings lacking one of the two fields
SuggesterOutputs ==
    { [improvements |-> <<"a">>, priority |-> <<"a">>],
      [improvements |-> <<"b", "c">>, priority |-> <<"c", "b">>],
      [improvements |-> <<"a">>],
      [priority |-> <<"a">>] }

\* the Idea the caller passes: fresh, or already carrying earlier suggestions
Ideas ==
    { [Name |-> "idea"],
      [Name |-> "idea", improvements |-> <<"z">>, priority |-> <<"z">>] }

\* target_score values: 3.5 (the default) and 0 (already met by the initial score)
Targets == {0, 350}

----------------------------------------------------------------------------
(* calculate_paper_score *)

RECURSIVE SumGet(_, _, _)
\* sum(review.get(metric, default) for metric in ms)
SumGet(review, ms, default) ==
    IF ms = <<>> THEN 0
    ELSE DictGet(review, Head(ms), default) + SumGet(review, Tail(ms), default)

calculate_paper_score_default0(review) ==
    (SumGet(review, metrics, 0) * 100) \div Len(metrics)

\* sum(review.get(metric, 1) for metric in metrics) / len(metrics), in hundredths
calculate_paper_score(review) ==
    (SumGet(review, metrics, 1) * 100) \div Len(metrics)

----------------------------------------------------------------------------
(* optimize_paper *)

Event(call, ok, arg, ret) ==
    [call |-> call, iteration |-> iteration, ok |-> ok, arg |-> arg, ret |-> ret]

Log(call, ok, arg, ret) == trace' = Append(trace, Event(call, ok, arg, ret))

RaiseReturnsPartial(err) ==
    /\ pc' = "done"
    /\ error' = err
    /\ result' = [final_review |-> meta_review, improvement_history |-> improvement_history]

\* an exception leaves optimize_paper: nothing is caught, nothing is returned
Raise(err) ==
    /\ pc' = "failed"
    /\ error' = err
    /\ UNCHANGED result

\* the caller has passed its Idea and waits for optimize_paper
InitCaller ==
    /\ idea0 = idea
    /\ main_pc = "optimize"
    /\ main_error = "none"
    /\ history_file = None
    /\ file_writes = 0
    /\ stdout = <<>>

Init ==
    /\ target_score \in Targets
    /\ max_iterations \in 0..MaxBudget
    /\ idea \in Ideas
    /\ improvement_history = <<>>
    /\ current_score = 0
    /\ iteration = 0
    /\ reviews = <<>>
    /\ meta_review = Unbound
    /\ improvements = Unbound
    /\ pc = "while"
    /\ error = "none"
    /\ result = None
    /\ trace = <<>>
    /\ llm_calls = 0
    /\ InitCaller

LoopCondOffByOne(cs, ts, it, mi) == cs < ts /\ it <= mi

LoopCondAtLeastOnce(cs, ts, it, mi) == it = 0 \/ (cs < ts /\ it < mi)

LoopCondStopsEarly(cs, ts, it, mi) == cs < ts /\ it + 1 < mi

LoopCondBudgetOnly(cs, ts, it, mi) == it < mi

\* current_score < target_score and iteration < max_iterations
LoopCond(cs, ts, it, mi) == cs < ts /\ it < mi

\* while current_score < target_score and iteration < max_iterations:
While ==
    /\ pc = "while"
    /\ pc' = IF LoopCond(current_score, target_score, iteration, max_iterations)
             THEN "writeup" ELSE "return"
    /\ UNCHANGED <<main_vars, llm_calls, target_score, max_iterations, idea, improvement_history,
                   current_score, iteration, reviews, meta_review, improvements,
                   error, result, trace>>

\* perform_writeup(idea=idea, ...); reviews = []
Writeup ==
    /\ pc = "writeup"
    /\ \E ok \in BOOLEAN :
        /\ Log("perform_writeup", ok, idea, None)
        /\ IF ok
           THEN /\ reviews' = <<>>
                /\ pc' = "review"
                /\ UNCHANGED <<error, result>>
           ELSE /\ Raise("CollaboratorError")
                /\ UNCHANGED reviews
    /\ UNCHANGED <<main_vars, llm_calls, target_score, max_iterations, idea, improvement_history,
                   current_score, iteration, meta_review, improvements>>

SampleCount == Cardinality({i \in DOMAIN trace : trace[i].call = "perform_review"})

ReviewLoopDoneAfterTwo(rs) == Len(rs) >= NumReviewers - 1

\* for _ in range(3) is exhausted
ReviewLoopDone(rs) == Len(rs) >= NumReviewers

ReviewsPushFront(rs, r) == <<r>> \o rs

\* reviews.append(review)
ReviewsAppend(rs, r) == Append(rs, r)

\* review = perform_review(...); reviews.append(review)
\* A Review is opaque to the loop: it is identified by the ordinal of its sample.
Review ==
    /\ pc = "review"
    /\ \E ok \in BOOLEAN :
        LET review == [sample |-> SampleCount + 1] IN
        /\ Log("perform_review", ok, None, IF ok THEN review ELSE None)
        /\ IF ok
           THEN /\ reviews' = ReviewsAppend(reviews, review)
                /\ pc' = IF ReviewLoopDone(reviews') THEN "meta" ELSE "review"
                /\ UNCHANGED <<error, result>>
           ELSE /\ Raise("CollaboratorError")
                /\ UNCHANGED reviews
    /\ UNCHANGED <<main_vars, llm_calls, target_score, max_iterations, idea, improvement_history,
                   current_score, iteration, meta_review, improvements>>

\* meta_review = get_meta_review(..., reviews=reviews)
MetaReview ==
    /\ pc = "meta"
    /\ \E ok \in BOOLEAN :
        IF ok
        THEN \E mr \in MetaReviews :
                /\ Log("get_meta_review", TRUE, reviews, mr)
                /\ meta_review' = mr
                /\ pc' = "score"
                /\ UNCHANGED <<error, result>>
        ELSE /\ Log("get_meta_review", FALSE, reviews, None)
             /\ Raise("CollaboratorError")
             /\ UNCHANGED meta_review
    /\ UNCHANGED <<main_vars, llm_calls, target_score, max_iterations, idea, improvement_history,
                   current_score, iteration, reviews, improvements>>

SuggestCondOrEqual(cs, ts) == cs <= ts

\* current_score < target_score
SuggestCond(cs, ts) == cs < ts

\* current_score = calculate_paper_score(meta_review); if current_score < target_score:
Score ==
    /\ pc = "score"
    /\ current_score' = calculate_paper_score(meta_review)
    /\ Log("calculate_paper_score", TRUE, meta_review, current_score')
    /\ pc' = IF SuggestCond(current_score', target_score) THEN "suggest" ELSE "record"
    /\ UNCHANGED <<main_vars, llm_calls, target_score, max_iterations, idea, improvement_history,
                   iteration, reviews, meta_review, improvements, error, result>>

LlmCallsWithRetry(n, ok) == IF ok THEN n + 1 ELSE n + 2

\* get_improvement_suggestions: one get_response_from_llm call, whatever its outcome
LlmCallsAfter(n, ok) == n + 1

\* improvements = get_improvement_suggestions(review=meta_review, ...)
Suggest ==
    /\ pc = "suggest"
    /\ \E ok \in BOOLEAN :
        /\ llm_calls' = LlmCallsAfter(llm_calls, ok)
        /\ IF ok
           THEN \E s \in SuggesterOutputs :
                   /\ Log("get_improvement_suggestions", TRUE, meta_review, s)
                   /\ improvements' = s
                   /\ pc' = "set_improvements"
                   /\ UNCHANGED <<error, result>>
           ELSE /\ Log("get_improvement_suggestions", FALSE, meta_review, None)
                /\ Raise("CollaboratorError")
                /\ UNCHANGED improvements
    /\ UNCHANGED <<main_vars, target_score, max_iterations, idea, improvement_history,
                   current_score, iteration, reviews, meta_review>>

MergeField(d, k, src) == DictSet(d, k, DictGet(d, k, <<>>) \o src[k])

\* d[k] = src[k]
CopyField(d, k, src) == DictSet(d, k, src[k])

\* idea['improvements'] = improvements['improvements']
SetImprovements ==
    /\ pc = "set_improvements"
    /\ IF "improvements" \in DOMAIN improvements
       THEN /\ idea' = CopyField(idea, "improvements", improvements)
            /\ pc' = "set_priority"
            /\ UNCHANGED <<error, result>>
       ELSE /\ Raise("KeyError")
            /\ UNCHANGED idea
    /\ UNCHANGED <<main_vars, llm_calls, target_score, max_iterations, improvement_history, current_score,
                   iteration, reviews, meta_review, improvements, trace>>

\* idea['priority'] = improvements['priority']
SetPriority ==
    /\ pc = "set_priority"
    /\ IF "priority" \in DOMAIN improvements
       THEN /\ idea' = CopyField(idea, "priority", improvements)
            /\ pc' = "record"
            /\ UNCHANGED <<error, result>>
       ELSE /\ Raise("KeyError")
            /\ UNCHANGED idea
    /\ UNCHANGED <<main_vars, llm_calls, target_score, max_iterations, improvement_history, current_score,
                   iteration, reviews, meta_review, improvements, trace>>

IterationRecordTargetAsScore(it, cs, mr, imp, ts) ==
    [iteration |-> it, score |-> ts, review |-> mr,
     improvements |-> IF cs < ts THEN imp ELSE None]

IterationRecordOrEqual(it, cs, mr, imp, ts) ==
    [iteration |-> it, score |-> cs, review |-> mr,
     improvements |-> IF cs <= ts THEN imp ELSE None]

\* {'iteration': iteration, 'score': current_score, 'review': meta_review,
\*  'improvements': improvements if current_score < target_score else None}
IterationRecord(it, cs, mr, imp, ts) ==
    [iteration |-> it, score |-> cs, review |-> mr,
     improvements |-> IF cs < ts THEN imp ELSE None]

NextIterationSkips(it) == it + 2

\* iteration += 1
NextIteration(it) == it + 1

HistoryKeepLatest(h, rec) == <<rec>>

\* improvement_history.append(record)
HistoryAppend(h, rec) == Append(h, rec)

\* improvement_history.append({...}); iteration += 1
Record ==
    /\ pc = "record"
    /\ LET rec == IterationRecord(iteration, current_score, meta_review,
                                  improvements, target_score) IN
        /\ improvement_history' = HistoryAppend(improvement_history, rec)
        /\ Log("append", TRUE, rec, None)
    /\ iteration' = NextIteration(iteration)
    /\ pc' = "while"
    /\ UNCHANGED <<main_vars, llm_calls, target_score, max_iterations, idea, current_score, reviews,
                   meta_review, improvements, error, result>>

\* return meta_review, improvement_history
Return ==
    /\ pc = "return"
    /\ IF meta_review = Unbound
       THEN Raise("UnboundLocalError")
       ELSE /\ result' = [final_review |-> meta_review,
                          improvement_history |-> improvement_history]
            /\ pc' = "done"
            /\ UNCHANGED error
    /\ UNCHANGED <<main_vars, llm_calls, target_score, max_iterations, idea, improvement_history,
                   current_score, iteration, reviews, meta_review, improvements, trace>>

Next ==
    \/ While
    \/ Writeup
    \/ Review
    \/ MetaReview
    \/ Score
    \/ Suggest
    \/ SetImprovements
    \/ SetPriority
    \/ Record
    \/ Return

Spec == Init /\ [][Next]_vars

\* every collaborator call eventually returns and the interpreter keeps running
FairSpec == Spec /\ WF_vars(Next)

----------------------------------------------------------------------------
(* main() of optimize_paper.py, from its call of optimize_paper on *)

\* target_score=3.5
MainTargetScore == 350

\* max_iterations=3
MainMaxIterations == 3

MainInit ==
    /\ target_score = MainTargetScore
    /\ max_iterations = MainMaxIterations
    /\ idea \in Ideas
    /\ improvement_history = <<>>
    /\ current_score = 0
    /\ iteration = 0
    /\ reviews = <<>>
    /\ meta_review = Unbound
    /\ improvements = Unbound
    /\ pc = "while"
    /\ error = "none"
    /\ result = None
    /\ trace = <<>>
    /\ llm_calls = 0
    /\ InitCaller

loop_vars == <<target_score, max_iterations, idea, improvement_history, current_score,
               iteration, reviews, meta_review, improvements, pc, error, result, trace,
               llm_calls>>

\* final_review, history = optimize_paper(...) raises: main() has no try/except
MainCallRaises ==
    /\ main_pc = "optimize"
    /\ pc = "failed"
    /\ main_pc' = "crashed"
    /\ main_error' = error
    /\ UNCHANGED <<loop_vars, idea0, history_file, file_writes, stdout>>

JsonNull == [null |-> TRUE]

\* json.dump of a list of records: each dict an object, None written as null
JsonDump(h) ==
    [k \in DOMAIN h |->
        [iteration |-> h[k].iteration, score |-> h[k].score, review |-> h[k].review,
         improvements |-> IF h[k].improvements = None THEN JsonNull
                          ELSE h[k].improvements]]

SaveHistoryEachIteration ==
    /\ main_pc = "optimize"
    /\ pc = "while"
    /\ Len(improvement_history) > file_writes
    /\ history_file' = JsonDump(improvement_history)
    /\ file_writes' = file_writes + 1
    /\ UNCHANGED <<loop_vars, idea0, main_pc, main_error, stdout>>

\* final_review, history = optimize_paper(...) returns;
\* with open(history_path, "w") as f: json.dump(history, f, indent=2)
SaveHistory ==
    /\ main_pc = "optimize"
    /\ pc = "done"
    /\ history_file' = JsonDump(result.improvement_history)
    /\ file_writes' = file_writes + 1
    /\ main_pc' = "print"
    /\ UNCHANGED <<loop_vars, idea0, main_error, stdout>>

summary_keys == <<"Originality", "Quality", "Clarity", "Significance">>

RECURSIVE SumItems(_, _)
\* sum(final_review[k] for k in ks), every k present
SumItems(review, ks) ==
    IF ks = <<>> THEN 0 ELSE review[Head(ks)] + SumItems(review, Tail(ks))

\* the three print calls; final_review[k] raises KeyError on an absent metric, and
\* {...:.2f} of a sum of integers over 4 is exact, in hundredths
PrintSummary ==
    /\ main_pc = "print"
    /\ IF Range(summary_keys) \subseteq DOMAIN result.final_review
       THEN /\ stdout' = stdout \o
                  << [line |-> "Paper optimization complete!"],
                     [line |-> "Final average score", value |->
                         (SumItems(result.final_review, summary_keys) * 100) \div 4],
                     [line |-> "Results saved in"] >>
            /\ main_pc' = "exit"
            /\ UNCHANGED main_error
       ELSE /\ stdout' = Append(stdout, [line |-> "Paper optimization complete!"])
            /\ main_pc' = "crashed"
            /\ main_error' = "KeyError"
    /\ UNCHANGED <<loop_vars, idea0, history_file, file_writes>>

MainNext ==
    \/ Next
    \/ MainCallRaises
    \/ SaveHistory
    \/ PrintSummary

MainSpec == MainInit /\ [][MainNext]_vars

----------------------------------------------------------------------------
(* The score calculator on every Review-shaped mapping *)

InitScore ==
    /\ target_score \in Targets
    /\ max_iterations = 1
    /\ idea \in Ideas
    /\ improvement_history = <<>>
    /\ current_score = 0
    /\ iteration = 0
    /\ reviews = <<>>
    /\ meta_review \in AllReviews
    /\ improvements = Unbound
    /\ pc = "score"
    /\ error = "none"
    /\ result = None
    /\ trace = <<>>
    /\ llm_calls = 0
    /\ InitCaller

NextScore == Score

SpecScore == InitScore /\ [][NextScore]_vars

----------------------------------------------------------------------------
(* Properties *)

History == improvement_history

Below(rec) == rec.score < target_score

\* the positions of the calls of one collaborator in the trace
Calls(name) == {p \in DOMAIN trace : trace[p].call = name}

\* the number of iterations started
Iterations == Cardinality(Calls("perform_writeup"))

Terminated == pc \in {"done", "failed"}

MetricOr1(r, m) == IF m \in DOMAIN r THEN r[m] ELSE 1

\* C2: the score is (Originality + Quality + Clarity + Significance) / 4 with each
\* absent metric taken as 1 (in hundredths: 4 * score = 100 * sum), and a mapping
\* lacking a metric is scored, e.g. {Originality:4, Quality:4, Significance:4} as 3.25.
C2_ScoreIsMeanWithDefault1 ==
    pc # "score" =>
        /\ 4 * current_score =
              100 * (MetricOr1(meta_review, "Originality") + MetricOr1(meta_review, "Quality")
                     + MetricOr1(meta_review, "Clarity") + MetricOr1(meta_review, "Significance"))
        /\ meta_review = [Originality |-> 4, Quality |-> 4, Significance |-> 4]
              => current_score = 325

\* the score of a review without Clarity has been computed
C2_Witness ==
    /\ pc # "score"
    /\ meta_review = [Originality |-> 4, Quality |-> 4, Significance |-> 4]
    /\ current_score = 325

Obtained == {p \in Calls("get_improvement_suggestions") : trace[p].ok}

IsPrefix(s, t) == Len(s) <= Len(t) /\ \A i \in DOMAIN s : s[i] = t[i]

\* the calls of iteration k, in the order issued
IterationCalls(k) ==
    LET evs == SelectSeq(trace, LAMBDA e : e.iteration = k) IN
    [i \in DOMAIN evs |-> evs[i].call]

StepsWithSuggest ==
    <<"perform_writeup", "perform_review", "perform_review", "perform_review",
      "get_meta_review", "calculate_paper_score", "get_improvement_suggestions", "append">>

StepsWithoutSuggest ==
    <<"perform_writeup", "perform_review", "perform_review", "perform_review",
      "get_meta_review", "calculate_paper_score", "append">>

C11_ZeroBudget ==
    max_iterations = 0 =>
        /\ trace = <<>>
        /\ llm_calls = 0
        /\ idea = idea0
        /\ meta_review = Unbound
        /\ result = None
        /\ pc \in {"while", "return", "failed"}
        /\ pc = "failed" => error = "UnboundLocalError"

\* a call with max_iterations = 0 and the default target has ended in the error
C11_Witness ==
    /\ max_iterations = 0
    /\ target_score = 350
    /\ pc = "failed"
    /\ error = "UnboundLocalError"

C14_Original ==
    max_iterations >= 1 =>
        /\ error # "UnboundLocalError"
        /\ pc \in {"return", "done"} => Iterations >= 1

\* C14 amended: with max_iterations >= 1 and target_score > 0 an iteration executes
\* and a return carries a MetaReview and a non-empty History; with max_iterations < 1
\* or target_score <= 0 no iteration executes and nothing is returned.
C14_FirstIterationRuns ==
    /\ (max_iterations >= 1 /\ target_score > 0) =>
          /\ error # "UnboundLocalError"
          /\ pc \in {"return", "done"} => Iterations >= 1 /\ History # <<>>
          /\ pc = "done" =>
                /\ result.final_review \in MetaReviews
                /\ result.improvement_history # <<>>
    /\ (max_iterations < 1 \/ target_score <= 0) =>
          /\ trace = <<>>
          /\ pc \in {"while", "return", "failed"}
          /\ pc = "failed" => error = "UnboundLocalError"

\* a call with a budget but target 0 ended without a MetaReview to return
C14_Witness ==
    /\ max_iterations >= 1
    /\ target_score = 0
    /\ pc = "failed"
    /\ error = "UnboundLocalError"
    /\ trace = <<>>

UpdatedKeys == {"improvements", "priority"}

Absent == <<"(absent)">>

\* the Idea's improvements and priority
Pair(d) == <<DictGet(d, "improvements", Absent), DictGet(d, "priority", Absent)>>

====
